---- MODULE Spec2Model ----
(***************************************************************************)
(* Model of fpl_api_statistics.py: the four report routines and the entry  *)
(* point that runs them.  Every HTTP GET is a read of an external service: *)
(* a manager's season history and a manager's gameweek picks are chosen    *)
(* when the routine fetches them; the per-player fixture histories and the *)
(* player directory are fixed for a run (the service is a pure read).      *)
(* An uncaught Python exception (NameError/UnboundLocalError, TypeError,   *)
(* IndexError) is the control state "error": nothing runs after it.        *)
(* Report keys (manager['name'], manager['team']) are taken to be distinct *)
(* per manager, so a report is a function on manager ids.                  *)
(***************************************************************************)
EXTENDS Integers, Sequences, FiniteSets, TLC

VARIABLES
    pc,                       \* control location
    tango_managers,           \* roster, in iteration order        (l.86)
    manager_index,            \* managers `for manager_id in tango_managers` began
    scores,                   \* the report being built
    res,                      \* the latest response fetched
    start_gw, end_gw,         \* arguments of the value/points routine
    total_points, start_value, end_value,      \* its locals (l.95-104)
    start_gw_month, end_gw_month, end_gw_total,
    captain_points_included, bench_included,   \* arguments of the others
    gw,                       \* `for gw in range(1, end_gw_total+1)`
    captain,                  \* local of the captain routine      (l.155)
    pick_index,               \* position of `for pick in picks`
    fetched,                  \* history variable: what each gameweek of the
                              \* current manager fetched, and the captain used
    player_history,           \* element-summary/<id> ['history'], per player
    player_collection,        \* player id -> position             (l.26-33)
    func_index,               \* position of `for func_key in functions`
    written                   \* report files written              (l.409)

vars == <<pc, tango_managers, manager_index, scores, res, start_gw, end_gw,
          total_points, start_value, end_value, start_gw_month, end_gw_month,
          end_gw_total, captain_points_included, bench_included, gw, captain,
          pick_index, fetched, player_history, player_collection, func_index,
          written>>

coachLocals == <<total_points, start_value, end_value>>
coachArgs == <<start_gw, end_gw>>
monthArgs == <<start_gw_month, end_gw_month, end_gw_total,
               captain_points_included, bench_included>>
gwLocals == <<gw, captain, pick_index, fetched>>
apiData == <<player_history, player_collection>>
mainLocals == <<func_index, written>>
routineLocals == <<manager_index, scores, res, coachLocals, gwLocals>>

----------------------------------------------------------------------------
(* Bounds of the model. *)

\* managers in the league standings
NumManagers == 2
\* gameweeks a history or an argument may name in the value/points routine
CoachMaxGW == 2
\* entries in one manager history of the value/points routine
CoachMaxLen == 2
\* gameweeks of the season in the captain and positional routines
MaxGW == 2
\* managers in the standings when the positional routine runs on any arguments
PositionManagers == 1
\* gameweeks a history or an argument may name in the min/max routine
LeastMaxGW == 3
\* entries in one manager history of the min/max routine
LeastMaxLen == 3

----------------------------------------------------------------------------
(* Python values. *)

\* A local that is not bound yet, and None: the empty tuple; a bound value v
\* is <<v>>.
Unbound == <<>>
None == <<>>
Bound(v) == <<v>>

SeqsUpTo(S, n) == UNION {[1..k -> S] : k \in 0..n}

\* A manager history has one entry per gameweek played.
DistinctEvents(h) == \A i, j \in 1..Len(h) : i # j => h[i].event # h[j].event

\* `x in range(lo, hi+1)` for integers
\* (mutant: the upper bound left out, as `range(lo, hi)` would)
InRange_Exclusive(x, lo, hi) == lo <= x /\ x < hi
InRange(x, lo, hi) == lo <= x /\ x <= hi

\* `scores[key] = value`
Put(d, key, value) == [k \in DOMAIN d \cup {key} |-> IF k = key THEN value ELSE d[k]]

\* fetch_manager_information(): the standings, one entry per manager
Roster(n) == [i \in 1..n |-> i]

----------------------------------------------------------------------------
(* fetch_coach_of_the_month_and_team_value(start_gw, end_gw)  l.70-111 *)

\* The gameweek points and squad value an entry may carry.  Values are in
\* tenths, multiples of ten, on which value / 10.0 and the difference are exact.
CoachSamples == { [points |-> 1, value |-> 20], [points |-> 3, value |-> 10] }
CoachEntries ==
    { [event |-> e, points |-> s.points, value |-> s.value] :
        e \in 1..CoachMaxGW, s \in CoachSamples }
CoachHistories == {h \in SeqsUpTo(CoachEntries, CoachMaxLen) : DistinctEvents(h)}

\* gameweek['value'] / 10.0
TeamValue(value) == value \div 10

\* one iteration of `for gameweek in res['current']` on the locals st
CoachEntry(st, gameweek) ==
    IF InRange(gameweek.event, start_gw, end_gw)
    THEN [total_points |-> st.total_points + gameweek.points,
          start_value  |-> IF gameweek.event = start_gw
                           THEN Bound(TeamValue(gameweek.value))
                           ELSE st.start_value,
          end_value    |-> IF gameweek.event = end_gw
                           THEN Bound(TeamValue(gameweek.value))
                           ELSE st.end_value]
    ELSE st

RECURSIVE CoachScan(_, _, _)
CoachScan(st, current, i) ==
    IF i > Len(current) THEN st
    ELSE CoachScan(CoachEntry(st, current[i]), current, i + 1)

\* (mutant: total_points not reset for the next manager)
CoachLocals_NoReset(sv, ev) == [total_points |-> total_points, start_value |-> sv, end_value |-> ev]
\* the locals at the top of a manager's iteration: total_points = 0 (l.95), the
\* two values whatever the previous iteration left
CoachLocals(sv, ev) == [total_points |-> 0, start_value |-> sv, end_value |-> ev]

\* One iteration of `for manager_id in tango_managers` (l.90-106): fetch the
\* history, scan it, store the manager's record.  Reading an unbound
\* end_value or start_value on l.106 raises.
CoachManager ==
    /\ pc = "coach"
    /\ manager_index < Len(tango_managers)
    /\ manager_index' = manager_index + 1
    /\ \E current \in CoachHistories :
         LET st == CoachScan(CoachLocals(start_value, end_value), current, 1)
             manager == tango_managers[manager_index + 1]
         IN  /\ res' = current
             /\ total_points' = st.total_points
             /\ start_value' = st.start_value
             /\ end_value' = st.end_value
             /\ IF st.end_value = Unbound \/ st.start_value = Unbound
                THEN /\ pc' = "error"
                     /\ UNCHANGED scores
                ELSE /\ scores' = Put(scores, manager,
                            [points |-> st.total_points,
                             end_team_value |-> st.end_value[1],
                             team_value_delta |-> st.end_value[1] - st.start_value[1]])
                     /\ pc' = "coach"
    /\ UNCHANGED <<tango_managers, coachArgs, monthArgs, gwLocals, apiData, mainLocals>>

\* `return scores` (l.111)
CoachReturn ==
    /\ pc = "coach"
    /\ manager_index = Len(tango_managers)
    /\ pc' = "coach_return"
    /\ UNCHANGED <<tango_managers, manager_index, scores, res, coachArgs, coachLocals,
                   monthArgs, gwLocals, apiData, mainLocals>>

\* The routine called with any arguments.
InitCoach ==
    /\ pc = "coach"
    /\ tango_managers = Roster(NumManagers)
    /\ manager_index = 0
    /\ scores = <<>>
    /\ res = <<>>
    /\ start_gw \in 1..CoachMaxGW
    /\ end_gw \in 1..CoachMaxGW
    /\ total_points = 0
    /\ start_value = Unbound
    /\ end_value = Unbound
    /\ start_gw_month = 0 /\ end_gw_month = 0 /\ end_gw_total = 0
    /\ captain_points_included = FALSE /\ bench_included = FALSE
    /\ gw = 0 /\ captain = Unbound /\ pick_index = 0 /\ fetched = <<>>
    /\ player_history = <<>> /\ player_collection = <<>>
    /\ func_index = 0 /\ written = {}

NextCoach == CoachManager \/ CoachReturn

SpecCoach == InitCoach /\ [][NextCoach]_vars

HasEvent(h, e) == \E i \in 1..Len(h) : h[i].event = e

RECURSIVE SumPoints(_, _)
SumPoints(h, I) ==
    IF I = {} THEN 0
    ELSE LET i == CHOOSE x \in I : TRUE IN h[i].points + SumPoints(h, I \ {i})

\* the manager whose record was stored last, whose history is still in res
CoachStored == pc \in {"coach", "coach_return"} /\ manager_index >= 1
CoachLast == tango_managers[manager_index]

\* C1: a manager whose history has no entry at start_gw or none at end_gw gets
\* no record: whenever a record has just been stored for a manager, that
\* manager's history holds an entry at start_gw and an entry at end_gw.
C1_MissingSampleIsError ==
    CoachStored => HasEvent(res, start_gw) /\ HasEvent(res, end_gw)

\* C4: with start_gw <= end_gw, a manager that has entries at both events is
\* reported the sum of points over exactly its own entries with event in
\* [start_gw, end_gw].
C4_PointsIsRangeSum ==
    (CoachStored /\ start_gw <= end_gw
        /\ HasEvent(res, start_gw) /\ HasEvent(res, end_gw))
    => scores[CoachLast].points =
         SumPoints(res, {i \in 1..Len(res) :
                           start_gw <= res[i].event /\ res[i].event <= end_gw})

\* the second manager stored, with an entry inside and an entry outside the range
C4_Witness ==
    /\ CoachStored /\ manager_index = 2
    /\ start_gw = 1 /\ end_gw = 1 /\ Len(res) = 2
    /\ HasEvent(res, 1) /\ HasEvent(res, 2)
    /\ scores[2].points = 3 /\ scores[1].points = 1

----------------------------------------------------------------------------
(* What the service holds for a run: the players and their fixtures. *)

Players == {1, 2}

\* expected_goals / expected_assists arrive as two-decimal strings; they are
\* held in hundredths, in which float(), the sums and round(x, 2) are exact.
Quiet(r) == [round |-> r, total_points |-> 1, goals_scored |-> 0, assists |-> 0,
             expected_goals |-> 10, expected_assists |-> 5]
Haul(r) == [round |-> r, total_points |-> 6, goals_scored |-> 2, assists |-> 1,
            expected_goals |-> 80, expected_assists |-> 30]

\* one fixture per gameweek, in order, from gameweek 1
Aligned(p) == [g \in 1..MaxGW |-> IF (g + p) % 2 = 0 THEN Haul(g) ELSE Quiet(g)]
\* a player who arrived after gameweek 1: the history starts at round 2
Late(p) == [g \in 1..(MaxGW - 1) |-> IF (g + p) % 2 = 0 THEN Quiet(g + 1) ELSE Haul(g + 1)]
\* two fixtures in the last round and none before
Double(p) == <<Haul(MaxGW), Quiet(MaxGW)>>

Seasons ==
    { [p \in Players |-> Aligned(p)],
      [p \in Players |-> IF p = 1 THEN Late(p) ELSE Aligned(p)],
      [p \in Players |-> IF p = 1 THEN Aligned(p) ELSE Double(p)] }

\* el_type_conversion (l.24)
el_type_conversion(t) ==
    CASE t = 1 -> "goalkeeper" [] t = 2 -> "defender"
      [] t = 3 -> "midfielder" [] t = 4 -> "forward"

\* bootstrap-static: the element_type of each player
Bootstraps == { <<1, 3>>, <<2, 4>>, <<4, 4>> }

\* update_player_collection() (l.26-33)
update_player_collection(elements) ==
    [p \in DOMAIN elements |-> [position |-> el_type_conversion(elements[p])]]

\* a squad holds a player once
DistinctElements(l) == \A i, j \in 1..Len(l) : i # j => l[i].element # l[j].element

EntryHistories ==
    { [points_on_bench |-> 0, event_transfers |-> 1],
      [points_on_bench |-> 3, event_transfers |-> 0] }

----------------------------------------------------------------------------
(* fetch_captain_bench_transfer(start_gw_month, end_gw_month, end_gw_total) *)
(* l.114-179                                                                *)

\* this routine reads of a pick its element and its is_captain flag
CaptainPicks == [element : Players, is_captain : BOOLEAN]
CaptainResponses ==
    [picks : {l \in SeqsUpTo(CaptainPicks, Cardinality(Players)) : DistinctElements(l)},
     entry_history : EntryHistories]

CaptainZero ==
    [points_on_bench_month |-> 0, points_on_bench_total |-> 0,
     number_of_transfers_month |-> 0, number_of_transfers_total |-> 0,
     captain_points_month |-> 0, captain_points_total |-> 0]

\* `for pick in picks: if pick['is_captain']: captain = pick['element']` (l.153-155)
RECURSIVE FindCaptain(_, _, _)
FindCaptain(cap, picks, i) ==
    IF i > Len(picks) THEN cap
    ELSE FindCaptain(IF picks[i].is_captain THEN Bound(picks[i].element) ELSE cap,
                     picks, i + 1)

\* (mutant: the total gated by the month range like the month figure)
CaptainFixture_TotalGated(sc, captain_fixture) ==
    IF InRange(captain_fixture.round, start_gw_month, end_gw_month)
    THEN [sc EXCEPT !.captain_points_total = @ + captain_fixture.total_points,
                    !.captain_points_month = @ + captain_fixture.total_points]
    ELSE sc

\* one iteration of `for captain_fixture in captain_history` (l.162-165)
CaptainFixture(sc, captain_fixture) ==
    [sc EXCEPT
       !.captain_points_total = @ + captain_fixture.total_points,
       !.captain_points_month =
           IF InRange(captain_fixture.round, start_gw_month, end_gw_month)
           THEN @ + captain_fixture.total_points ELSE @]

RECURSIVE CaptainScan(_, _, _)
CaptainScan(sc, captain_history, i) ==
    IF i > Len(captain_history) THEN sc
    ELSE CaptainScan(CaptainFixture(sc, captain_history[i]), captain_history, i + 1)

\* l.167-174
CaptainEntry(sc, entry, g) ==
    LET tot == [sc EXCEPT
                  !.points_on_bench_total = @ + entry.points_on_bench,
                  !.number_of_transfers_total = @ + entry.event_transfers]
    IN  IF InRange(g, start_gw_month, end_gw_month)
        THEN [tot EXCEPT
                !.points_on_bench_month = @ + entry.points_on_bench,
                !.number_of_transfers_month = @ + entry.event_transfers]
        ELSE tot

\* `for manager_id in tango_managers` takes the next manager (l.137-146)
CaptainManager ==
    /\ pc = "captain"
    /\ manager_index < Len(tango_managers)
    /\ manager_index' = manager_index + 1
    /\ scores' = Put(scores, tango_managers[manager_index + 1], CaptainZero)
    /\ gw' = 1
    /\ fetched' = <<>>
    /\ pc' = "captain_gw"
    /\ UNCHANGED <<tango_managers, res, coachArgs, coachLocals, monthArgs, captain,
                   pick_index, apiData, mainLocals>>

\* One iteration of `for gw in range(1, end_gw_total+1)` (l.147-174).  With
\* `captain` unbound, l.158 raises.
CaptainGameweek ==
    /\ pc = "captain_gw"
    /\ gw <= end_gw_total
    /\ \E r \in CaptainResponses :
         LET cap == FindCaptain(captain, r.picks, 1)
             manager == tango_managers[manager_index]
         IN  /\ res' = r
             /\ captain' = cap
             /\ IF cap = Unbound
                THEN /\ pc' = "error"
                     /\ UNCHANGED <<scores, gw, fetched>>
                ELSE /\ scores' = [scores EXCEPT ![manager] =
                            CaptainEntry(CaptainScan(@, player_history[cap[1]], 1),
                                         r.entry_history, gw)]
                     /\ gw' = gw + 1
                     /\ fetched' = Append(fetched, [res |-> r, captain |-> cap])
                     /\ pc' = "captain_gw"
    /\ UNCHANGED <<tango_managers, manager_index, coachArgs, coachLocals, monthArgs,
                   pick_index, apiData, mainLocals>>

\* the gameweek loop of a manager ends
CaptainGameweeksDone ==
    /\ pc = "captain_gw"
    /\ gw > end_gw_total
    /\ pc' = "captain"
    /\ UNCHANGED <<tango_managers, manager_index, scores, res, coachArgs, coachLocals,
                   monthArgs, gwLocals, apiData, mainLocals>>

\* `return scores` (l.179)
CaptainReturn ==
    /\ pc = "captain"
    /\ manager_index = Len(tango_managers)
    /\ pc' = "captain_return"
    /\ UNCHANGED <<tango_managers, manager_index, scores, res, coachArgs, coachLocals,
                   monthArgs, gwLocals, apiData, mainLocals>>

NextCaptain ==
    CaptainManager \/ CaptainGameweek \/ CaptainGameweeksDone \/ CaptainReturn

----------------------------------------------------------------------------
(* position_bench_goals_assists_xg_xa(start_gw_month, end_gw_month,        *)
(*     end_gw_total, captain_points_included, bench_included)  l.182-307   *)

\* multiplier 3 (triple captain) takes the same path as 1
Multipliers == {0, 1, 2}
\* this routine reads of a pick its element and its multiplier
PositionPicks == [element : Players, multiplier : Multipliers]
PositionResponses ==
    [picks : {l \in SeqsUpTo(PositionPicks, Cardinality(Players)) : DistinctElements(l)}]

Stats == {"goals", "assists", "expected_goals", "expected_assists"}
Accumulators ==
    {"goalkeeper", "defender", "midfielder", "forward", "bench"} \cup Stats

PositionZero == [a \in Accumulators |-> [total |-> 0, month |-> 0]]

\* (mutant: the captain's doubling kept whatever captain_points_included)
EffectiveMultiplier_Raw(pick) == pick.multiplier

\* l.268-271
EffectiveMultiplier(pick) ==
    IF pick.multiplier = 2
    THEN (IF ~captain_points_included THEN 1 ELSE pick.multiplier)
    ELSE pick.multiplier

\* (mutant: bench_included ignored)
BenchMultiplier_Keep(multiplier) == multiplier

\* l.285
BenchMultiplier(multiplier) == IF bench_included THEN 1 ELSE multiplier

\* the fixture's figure for a stat accumulator (l.289-292)
StatOf(a, h) ==
    CASE a = "goals" -> h.goals_scored
      [] a = "assists" -> h.assists
      [] a = "expected_goals" -> h.expected_goals
      [] a = "expected_assists" -> h.expected_assists

\* l.280-300 for one pick: sc the team's record, h = player_history[gw-1],
\* m0 the effective multiplier, g the gameweek
PositionAdd(sc, position, h, m0, g) ==
    LET inMonth == InRange(g, start_gw_month, end_gw_month)
        multiplier == IF m0 = 0 THEN BenchMultiplier(m0) ELSE m0
        benchTotal == IF m0 = 0 THEN h.total_points ELSE 0
        benchMonth == IF m0 = 0 /\ inMonth THEN h.total_points ELSE 0
        Total(a) ==
            (IF a = "bench" THEN benchTotal ELSE 0)
          + (IF a = position THEN h.total_points * multiplier ELSE 0)
          + (IF a \in Stats /\ multiplier # 0 THEN StatOf(a, h) ELSE 0)
        Month(a) ==
            (IF a = "bench" THEN benchMonth ELSE 0)
          + (IF a = position /\ inMonth THEN h.total_points * multiplier ELSE 0)
          + (IF a \in Stats /\ inMonth /\ multiplier # 0 THEN StatOf(a, h) ELSE 0)
    IN  [a \in Accumulators |->
            [total |-> sc[a].total + Total(a), month |-> sc[a].month + Month(a)]]

\* round(x, 2) on a figure held in hundredths (l.302-305)
Round2(x) == x

\* `for manager_id in tango_managers` takes the next manager (l.217-257)
PositionManager ==
    /\ pc = "position"
    /\ manager_index < Len(tango_managers)
    /\ manager_index' = manager_index + 1
    /\ scores' = Put(scores, tango_managers[manager_index + 1], PositionZero)
    /\ gw' = 1
    /\ fetched' = <<>>
    /\ pc' = "position_gw"
    /\ UNCHANGED <<tango_managers, res, coachArgs, coachLocals, monthArgs, captain,
                   pick_index, apiData, mainLocals>>

\* `for gw in range(1, end_gw_total+1)` fetches the gameweek's picks (l.259-263)
PositionGameweek ==
    /\ pc = "position_gw"
    /\ gw <= end_gw_total
    /\ \E r \in PositionResponses :
         /\ res' = r
         /\ fetched' = Append(fetched, [res |-> r, captain |-> Unbound])
    /\ pick_index' = 0
    /\ pc' = "position_pick"
    /\ UNCHANGED <<tango_managers, manager_index, scores, coachArgs, coachLocals,
                   monthArgs, gw, captain, apiData, mainLocals>>

\* One iteration of `for pick in picks` (l.264-300).  player_history[gw-1]
\* raises IndexError on a history shorter than gw (l.278).
PositionPick ==
    /\ pc = "position_pick"
    /\ pick_index < Len(res.picks)
    /\ pick_index' = pick_index + 1
    /\ LET pick == res.picks[pick_index + 1]
           position == player_collection[pick.element].position
           history == player_history[pick.element]
           manager == tango_managers[manager_index]
       IN  IF Len(history) < gw
           THEN /\ pc' = "error"
                /\ UNCHANGED scores
           ELSE /\ scores' = [scores EXCEPT ![manager] =
                       PositionAdd(@, position, history[gw],
                                   EffectiveMultiplier(pick), gw)]
                /\ pc' = "position_pick"
    /\ UNCHANGED <<tango_managers, manager_index, res, coachArgs, coachLocals,
                   monthArgs, gw, captain, fetched, apiData, mainLocals>>

\* the pick loop of a gameweek ends
PositionPicksDone ==
    /\ pc = "position_pick"
    /\ pick_index = Len(res.picks)
    /\ gw' = gw + 1
    /\ pc' = "position_gw"
    /\ UNCHANGED <<tango_managers, manager_index, scores, res, coachArgs, coachLocals,
                   monthArgs, captain, pick_index, fetched, apiData, mainLocals>>

\* the gameweek loop of a manager ends: the four roundings (l.302-305)
PositionRound ==
    /\ pc = "position_gw"
    /\ gw > end_gw_total
    /\ scores' = [scores EXCEPT ![tango_managers[manager_index]] =
            [a \in Accumulators |->
                IF a \in {"expected_goals", "expected_assists"}
                THEN [total |-> Round2(@[a].total), month |-> Round2(@[a].month)]
                ELSE @[a]]]
    /\ pc' = "position"
    /\ UNCHANGED <<tango_managers, manager_index, res, coachArgs, coachLocals,
                   monthArgs, gwLocals, apiData, mainLocals>>

\* `return scores` (l.307)
PositionReturn ==
    /\ pc = "position"
    /\ manager_index = Len(tango_managers)
    /\ pc' = "position_return"
    /\ UNCHANGED <<tango_managers, manager_index, scores, res, coachArgs, coachLocals,
                   monthArgs, gwLocals, apiData, mainLocals>>

NextPosition ==
    \/ PositionManager \/ PositionGameweek \/ PositionPick
    \/ PositionPicksDone \/ PositionRound \/ PositionReturn

\* Either routine called with any arguments.
InitMonth ==
    /\ pc \in {"captain", "position"}
    /\ tango_managers = IF pc = "captain" THEN Roster(NumManagers)
                        ELSE Roster(PositionManagers)
    /\ manager_index = 0
    /\ scores = <<>>
    /\ res = <<>>
    /\ start_gw = 0 /\ end_gw = 0
    /\ total_points = 0 /\ start_value = Unbound /\ end_value = Unbound
    /\ start_gw_month \in 1..MaxGW
    /\ end_gw_month \in 1..MaxGW
    /\ end_gw_total \in 1..MaxGW
    /\ captain_points_included \in (IF pc = "captain" THEN {FALSE} ELSE BOOLEAN)
    /\ bench_included \in (IF pc = "captain" THEN {FALSE} ELSE BOOLEAN)
    /\ gw = 0 /\ captain = Unbound /\ pick_index = 0 /\ fetched = <<>>
    /\ player_history \in Seasons
    /\ player_collection \in {update_player_collection(b) :
            b \in (IF pc = "captain" THEN {<<1, 3>>} ELSE Bootstraps)}
    /\ func_index = 0 /\ written = {}

NextMonth == NextCaptain \/ NextPosition

SpecMonth == InitMonth /\ [][NextMonth]_vars

----------------------------------------------------------------------------
(* least_and_most_points(start_gw_month, end_gw_month)  l.313-368 *)

LeastPoints == {5, 10, 25}
LeastEntries == [event : 1..LeastMaxGW, total_points : LeastPoints]
LeastHistories == {h \in SeqsUpTo(LeastEntries, LeastMaxLen) : DistinctEvents(h)}

\* manager_scores as created on l.340-345; raised: a comparison with None
\* has raised TypeError
LeastStart ==
    [min_points_total |-> None, max_points_total |-> None,
     min_points_month |-> None, max_points_month |-> None, raised |-> FALSE]

\* l.355-358, on bound totals
LeastTotal(ms, t) ==
    [ms EXCEPT
       !.min_points_total = IF t < @[1] THEN Bound(t) ELSE @,
       !.max_points_total = IF t > @[1] THEN Bound(t) ELSE @]

\* l.361-364, on bound month figures
LeastMonth(ms, t) ==
    [ms EXCEPT
       !.min_points_month = IF t < @[1] THEN Bound(t) ELSE @,
       !.max_points_month = IF t > @[1] THEN Bound(t) ELSE @]

\* one iteration of `for gw in manager_history['current']` (l.347-364)
LeastEntry(ms, entry) ==
    LET t == entry.total_points
        first == IF entry.event = 1
                 THEN [ms EXCEPT !.min_points_total = Bound(t),
                                 !.max_points_total = Bound(t)]
                 ELSE ms
        opened == IF entry.event = start_gw_month
                  THEN [first EXCEPT !.min_points_month = Bound(t),
                                     !.max_points_month = Bound(t)]
                  ELSE first
    IN  IF ms.raised \/ ~(entry.event > 1) THEN (IF ms.raised THEN ms ELSE opened)
        ELSE IF opened.min_points_total = None THEN [opened EXCEPT !.raised = TRUE]
        ELSE IF ~InRange(entry.event, start_gw_month, end_gw_month)
             THEN LeastTotal(opened, t)
        ELSE IF opened.min_points_month = None
             THEN [LeastTotal(opened, t) EXCEPT !.raised = TRUE]
        ELSE LeastMonth(LeastTotal(opened, t), t)

RECURSIVE LeastScan(_, _, _)
LeastScan(ms, current, i) ==
    IF i > Len(current) THEN ms
    ELSE LeastScan(LeastEntry(ms, current[i]), current, i + 1)

\* the four report fields of manager_scores
LeastReport(ms) ==
    [k \in {"min_points_total", "max_points_total",
            "min_points_month", "max_points_month"} |-> ms[k]]

\* One iteration of `for manager_id in tango_managers` (l.334-366)
LeastManager ==
    /\ pc = "least"
    /\ manager_index < Len(tango_managers)
    /\ manager_index' = manager_index + 1
    /\ \E current \in LeastHistories :
         LET ms == LeastScan(LeastStart, current, 1)
         IN  /\ res' = current
             /\ IF ms.raised
                THEN /\ pc' = "error"
                     /\ UNCHANGED scores
                ELSE /\ scores' = Put(scores, tango_managers[manager_index + 1],
                                      LeastReport(ms))
                     /\ pc' = "least"
    /\ UNCHANGED <<tango_managers, coachArgs, coachLocals, monthArgs, gwLocals,
                   apiData, mainLocals>>

\* `return scores` (l.368)
LeastReturn ==
    /\ pc = "least"
    /\ manager_index = Len(tango_managers)
    /\ pc' = "least_return"
    /\ UNCHANGED <<tango_managers, manager_index, scores, res, coachArgs, coachLocals,
                   monthArgs, gwLocals, apiData, mainLocals>>

\* The routine called with any arguments.
InitLeast ==
    /\ pc = "least"
    /\ tango_managers = Roster(NumManagers)
    /\ manager_index = 0
    /\ scores = <<>>
    /\ res = <<>>
    /\ start_gw = 0 /\ end_gw = 0
    /\ total_points = 0 /\ start_value = Unbound /\ end_value = Unbound
    /\ start_gw_month \in 1..LeastMaxGW
    /\ end_gw_month \in 1..LeastMaxGW
    /\ end_gw_total = 0
    /\ captain_points_included = FALSE /\ bench_included = FALSE
    /\ gw = 0 /\ captain = Unbound /\ pick_index = 0 /\ fetched = <<>>
    /\ player_history = <<>> /\ player_collection = <<>>
    /\ func_index = 0 /\ written = {}

NextLeast == LeastManager \/ LeastReturn

SpecLeast == InitLeast /\ [][NextLeast]_vars

----------------------------------------------------------------------------
(* The entry point  l.374-410 *)

gw_start_of_month == 1
gw_end_of_month == 1
gw_end_total == 1

\* the keys of `functions`, in insertion order (l.383-400)
FunctionKeys ==
    << "coach_of_the_month_and_team_value",
       "captain_points_bench_points_num_of_transfers",
       "position_points_bench_points_goals_assists_xg_xa",
       "least_and_most_points" >>

\* where each function starts
FunctionEntry == << "coach", "captain", "position", "least" >>

Returned == pc \in {"coach_return", "captain_return", "position_return", "least_return"}

\* `stats = func(*args)` (l.402-407): the call binds the arguments in a fresh
\* frame; each routine begins by fetching the roster.
MainCall ==
    /\ pc = "main"
    /\ func_index < Len(FunctionKeys)
    /\ func_index' = func_index + 1
    /\ pc' = FunctionEntry[func_index + 1]
    /\ tango_managers' = Roster(NumManagers)
    /\ manager_index' = 0
    /\ scores' = <<>>
    /\ res' = <<>>
    /\ start_gw' = (IF func_index + 1 = 1 THEN gw_start_of_month ELSE 0)
    /\ end_gw' = (IF func_index + 1 = 1 THEN gw_end_of_month ELSE 0)
    /\ start_gw_month' = (IF func_index + 1 = 1 THEN 0 ELSE gw_start_of_month)
    /\ end_gw_month' = (IF func_index + 1 = 1 THEN 0 ELSE gw_end_of_month)
    /\ end_gw_total' = (IF func_index + 1 \in {2, 3} THEN gw_end_total ELSE 0)
    /\ captain_points_included' = (func_index + 1 = 3)
    /\ bench_included' = FALSE
    /\ total_points' = 0 /\ start_value' = Unbound /\ end_value' = Unbound
    /\ gw' = 0 /\ captain' = Unbound /\ pick_index' = 0 /\ fetched' = <<>>
    /\ UNCHANGED <<apiData, written>>

\* `json.dump(stats, f)` into "<func_key>.json" (l.409-410); the routine's
\* frame is gone
MainWrite ==
    /\ Returned
    /\ written' = written \cup {FunctionKeys[func_index]}
    /\ pc' = "main"
    /\ manager_index' = 0
    /\ scores' = <<>>
    /\ res' = <<>>
    /\ total_points' = 0 /\ start_value' = Unbound /\ end_value' = Unbound
    /\ gw' = 0 /\ captain' = Unbound /\ pick_index' = 0 /\ fetched' = <<>>
    /\ UNCHANGED <<tango_managers, coachArgs, monthArgs, apiData, func_index>>

\* the loop over `functions` ends and the process exits
MainExit ==
    /\ pc = "main"
    /\ func_index = Len(FunctionKeys)
    /\ pc' = "exit"
    /\ UNCHANGED <<tango_managers, routineLocals, coachArgs, monthArgs, apiData,
                   mainLocals>>

Init ==
    /\ pc = "main"
    /\ tango_managers = <<>>
    /\ manager_index = 0
    /\ scores = <<>>
    /\ res = <<>>
    /\ start_gw = 0 /\ end_gw = 0
    /\ total_points = 0 /\ start_value = Unbound /\ end_value = Unbound
    /\ start_gw_month = 0 /\ end_gw_month = 0 /\ end_gw_total = 0
    /\ captain_points_included = FALSE /\ bench_included = FALSE
    /\ gw = 0 /\ captain = Unbound /\ pick_index = 0 /\ fetched = <<>>
    /\ player_history \in Seasons
    /\ player_collection \in {update_player_collection(b) : b \in Bootstraps}
    /\ func_index = 0 /\ written = {}

Next ==
    \/ MainCall \/ MainWrite \/ MainExit
    \/ NextCoach \/ NextCaptain \/ NextPosition \/ NextLeast

Spec == Init /\ [][Next]_vars

----------------------------------------------------------------------------
(* Properties of the min/max routine and of the entry point. *)

\* the manager whose history was scanned last, still in res, got a record
LeastStored == pc \in {"least", "least_return"} /\ manager_index >= 1

\* C8: a manager whose history has no entry at event 1 or none at
\* start_gw_month gets no record, and no record holds an unset (None) field.
C8_MissingSampleIsError ==
    LeastStored =>
        /\ HasEvent(res, 1) /\ HasEvent(res, start_gw_month)
        /\ \A m \in DOMAIN scores : \A k \in DOMAIN scores[m] : scores[m][k] # None

SetMin(S) == CHOOSE x \in S : \A y \in S : x <= y
SetMax(S) == CHOOSE x \in S : \A y \in S : x >= y
AllPoints(h) == {h[i].total_points : i \in 1..Len(h)}
MonthPoints(h) ==
    {h[i].total_points : i \in {j \in 1..Len(h) :
        start_gw_month <= h[j].event /\ h[j].event <= end_gw_month}}

\* C9: with 1 <= start_gw_month <= end_gw_month and a history that holds
\* entries for event 1 and for start_gw_month, in any order, the record is the
\* minimum and maximum of total_points over all entries and over the entries
\* of the month range.
C9_MinMaxInAnyOrder ==
    (/\ pc \in {"least", "least_return", "error"} /\ manager_index >= 1
     /\ 1 <= start_gw_month /\ start_gw_month <= end_gw_month
     /\ HasEvent(res, 1) /\ HasEvent(res, start_gw_month))
    => /\ pc # "error"
       /\ scores[tango_managers[manager_index]] =
            [min_points_total |-> Bound(SetMin(AllPoints(res))),
             max_points_total |-> Bound(SetMax(AllPoints(res))),
             min_points_month |-> Bound(SetMin(MonthPoints(res))),
             max_points_month |-> Bound(SetMax(MonthPoints(res)))]

\* C3: when the process has ended, by the end of the loop or by an uncaught
\* error, all four routines were attempted and every routine before the last
\* attempted one that returned has its report written.
C3_FailureDoesNotAbort ==
    pc \in {"exit", "error"} =>
        /\ func_index = Len(FunctionKeys)
        /\ \A i \in 1..Len(FunctionKeys) :
             (i < func_index \/ pc = "exit") => FunctionKeys[i] \in written

----------------------------------------------------------------------------
(* Properties of the captain and positional routines. *)

RECURSIVE SumFn(_)
\* the sum of an integer-valued function over its (finite) domain
SumFn(f) ==
    IF DOMAIN f = {} THEN 0
    ELSE LET x == CHOOSE y \in DOMAIN f : TRUE
         IN  f[x] + SumFn([y \in DOMAIN f \ {x} |-> f[y]])

\* the manager whose record is being built, or was built last
Team == tango_managers[manager_index]
Weeks == 1..Len(fetched)
MonthWeeks == {g \in Weeks : start_gw_month <= g /\ g <= end_gw_month}

\* the captain routine is past at least the set-up of a manager, without error
CaptainAt == pc \in {"captain_gw", "captain", "captain_return"} /\ manager_index >= 1
\* the gameweek loop of the current manager is complete
CaptainComplete == pc \in {"captain", "captain_return"} /\ manager_index >= 1

Flagged(picks) == {i \in 1..Len(picks) : picks[i].is_captain}
FlaggedElement(picks) == picks[CHOOSE i \in Flagged(picks) : TRUE].element
SeasonTotal(p) ==
    SumFn([i \in 1..Len(player_history[p]) |-> player_history[p][i].total_points])

\* C2: every gameweek iterated without error has a pick flagged as captain
\* (a gameweek without one makes the routine fail).
C2_NoCaptainIsError ==
    CaptainAt => \A g \in Weeks : Flagged(fetched[g].res.picks) # {}

\* C5: with one captain flagged in each gameweek, captain_points_total is the
\* sum over the gameweeks iterated (all of 1..end_gw_total once the loop is
\* complete) of the whole-season total of that gameweek's captain.
C5_CaptainTotalIsSeasonSums ==
    (CaptainAt /\ \A g \in Weeks : Cardinality(Flagged(fetched[g].res.picks)) = 1)
    => /\ scores[Team].captain_points_total =
            SumFn([g \in Weeks |-> SeasonTotal(FlaggedElement(fetched[g].res.picks))])
       /\ CaptainComplete => Len(fetched) = end_gw_total

\* player 1, whose two fixtures sum to 7, captain in both of two gameweeks: 14
C5_Witness ==
    /\ pc = "captain_return" /\ end_gw_total = 2 /\ manager_index = 2
    /\ \A g \in Weeks : /\ Cardinality(Flagged(fetched[g].res.picks)) = 1
                        /\ FlaggedElement(fetched[g].res.picks) = 1
    /\ Len(player_history[1]) = 2 /\ SeasonTotal(1) = 7
    /\ scores[Team].captain_points_total = 14

\* the positional routine is past at least the set-up of a manager, without error
PositionAt ==
    /\ pc \in {"position_gw", "position_pick", "position", "position_return"}
    /\ manager_index >= 1
PositionComplete == pc \in {"position", "position_return"} /\ manager_index >= 1

\* the picks of the current manager processed so far: (gameweek, index)
Processed ==
    {x \in Weeks \X (1..Cardinality(Players)) :
        /\ x[2] <= Len(fetched[x[1]].res.picks)
        /\ (x[1] < Len(fetched) \/ x[2] <= pick_index)}
PickAt(x) == fetched[x[1]].res.picks[x[2]]
FixtureAt(x) == player_history[PickAt(x).element][x[1]]
PositionOf(x) == player_collection[PickAt(x).element].position
\* the multiplier with the captain's doubling dropped when it is not wanted
Effective(x) ==
    IF PickAt(x).multiplier = 2 /\ ~captain_points_included THEN 1
    ELSE PickAt(x).multiplier
Benched(x) == Effective(x) = 0
\* a pick counts for its position and the statistics unless it is benched
\* and the bench is excluded
Counted(x) == ~Benched(x) \/ bench_included

\* what pick x adds to the total of accumulator a
Contribution(a, x) ==
    CASE a = "bench" -> IF Benched(x) THEN FixtureAt(x).total_points ELSE 0
      [] a \in Stats -> IF Counted(x) THEN StatOf(a, FixtureAt(x)) ELSE 0
      [] OTHER -> IF a = PositionOf(x) /\ Counted(x)
                  THEN FixtureAt(x).total_points *
                         (IF Benched(x) THEN 1 ELSE Effective(x))
                  ELSE 0
InMonth(x) == start_gw_month <= x[1] /\ x[1] <= end_gw_month

CaptainHistoryAt(g) == player_history[fetched[g].captain[1]]

\* C6: each month accumulator is the sum of the contributions to its total
\* whose gameweek (the fixture's round, for captain points) lies in
\* [start_gw_month, end_gw_month]: after every iteration and at return.
C6_MonthIsRangePartOfTotal ==
    /\ CaptainAt =>
         LET sc == scores[Team]
             Bench(g) == fetched[g].res.entry_history.points_on_bench
             Transfers(g) == fetched[g].res.entry_history.event_transfers
             Cap(g, inRange) ==
                 SumFn([i \in {j \in 1..Len(CaptainHistoryAt(g)) :
                                 inRange => /\ start_gw_month <= CaptainHistoryAt(g)[j].round
                                            /\ CaptainHistoryAt(g)[j].round <= end_gw_month}
                        |-> CaptainHistoryAt(g)[i].total_points])
         IN  /\ sc.points_on_bench_total = SumFn([g \in Weeks |-> Bench(g)])
             /\ sc.points_on_bench_month = SumFn([g \in MonthWeeks |-> Bench(g)])
             /\ sc.number_of_transfers_total = SumFn([g \in Weeks |-> Transfers(g)])
             /\ sc.number_of_transfers_month = SumFn([g \in MonthWeeks |-> Transfers(g)])
             /\ sc.captain_points_total = SumFn([g \in Weeks |-> Cap(g, FALSE)])
             /\ sc.captain_points_month = SumFn([g \in Weeks |-> Cap(g, TRUE)])
    /\ PositionAt =>
         \A a \in Accumulators \ {"expected_goals", "expected_assists"} :
            /\ scores[Team][a].total = SumFn([x \in Processed |-> Contribution(a, x)])
            /\ scores[Team][a].month =
                 SumFn([x \in {y \in Processed : InMonth(y)} |-> Contribution(a, x)])

\* a month accumulator strictly between 0 and its total, in either routine
C6_Witness ==
    \/ /\ pc = "captain_return" /\ manager_index = 2
       /\ 0 < scores[Team].captain_points_month
       /\ scores[Team].captain_points_month < scores[Team].captain_points_total
       /\ 0 < scores[Team].points_on_bench_month
       /\ scores[Team].points_on_bench_month < scores[Team].points_on_bench_total
    \/ /\ pc = "position_return"
       /\ 0 < scores[Team]["midfielder"].month
       /\ scores[Team]["midfielder"].month < scores[Team]["midfielder"].total
       /\ 0 < scores[Team]["bench"].month
       /\ scores[Team]["bench"].month < scores[Team]["bench"].total

PositionTotals ==
    SumFn([a \in {"goalkeeper", "defender", "midfielder", "forward"} |->
            scores[Team][a].total])

\* C7 as stated: with bench_included false, the four position totals plus
\* bench.total equal the sum of points * multiplier over the non-bench picks.
C7_AsStated ==
    (PositionComplete /\ ~bench_included)
    => PositionTotals + scores[Team]["bench"].total =
         SumFn([x \in {y \in Processed : PickAt(y).multiplier # 0} |->
                  FixtureAt(x).total_points * PickAt(x).multiplier])

\* C7 amended: ... equal the sum of points * effective multiplier over the
\* non-bench picks plus the sum of points over the benched picks.
C7_TotalsPlusBench ==
    (PositionComplete /\ ~bench_included)
    => PositionTotals + scores[Team]["bench"].total =
           SumFn([x \in {y \in Processed : PickAt(y).multiplier # 0} |->
                    FixtureAt(x).total_points * Effective(x)])
         + SumFn([x \in {y \in Processed : PickAt(y).multiplier = 0} |->
                    FixtureAt(x).total_points])

\* a finished manager with a benched pick and an undoubled captain
C7_Witness ==
    /\ pc = "position_return" /\ ~bench_included /\ ~captain_points_included
    /\ end_gw_total = 2
    /\ \E x \in Processed : PickAt(x).multiplier = 0
    /\ \E x \in Processed : PickAt(x).multiplier = 2
    /\ \E x \in Processed : PickAt(x).multiplier = 1
    /\ scores[Team]["bench"].total > 0

\* a step that processes a benched pick without error
BenchPickStep ==
    /\ pc = "position_pick" /\ pc' = "position_pick"
    /\ pick_index' = pick_index + 1
    /\ res.picks[pick_index + 1].multiplier = 0

\* C10: a benched pick adds its gameweek points to bench.total (and to
\* bench.month inside the month range); with bench_included false it adds
\* nothing else; with bench_included true it adds its points once to its
\* position and its goals/assists/xG/xA to the statistics (month parts
\* inside the month range).
C10_BenchedPick ==
    [][BenchPickStep =>
        LET pick == res.picks[pick_index + 1]
            h == player_history[pick.element][gw]
            position == player_collection[pick.element].position
            inMonth == start_gw_month <= gw /\ gw <= end_gw_month
            old == scores[Team]
            new == scores'[Team]
            Gate(v) == IF inMonth THEN v ELSE 0
        IN  /\ new["bench"].total = old["bench"].total + h.total_points
            /\ new["bench"].month = old["bench"].month + Gate(h.total_points)
            /\ \A a \in Accumulators \ {"bench"} :
                 LET add == IF ~bench_included THEN 0
                            ELSE IF a = position THEN h.total_points
                            ELSE IF a \in Stats THEN StatOf(a, h)
                            ELSE 0
                 IN  /\ new[a].total = old[a].total + add
                     /\ new[a].month = old[a].month + Gate(add)
    ]_vars

\* a benched pick just processed inside the month range, with the bench included
C10_Witness ==
    /\ pc = "position_pick" /\ pick_index >= 1 /\ bench_included
    /\ res.picks[pick_index].multiplier = 0
    /\ start_gw_month <= gw /\ gw <= end_gw_month
    /\ scores[Team]["bench"].month > 0
    /\ scores[Team]["goals"].month > 0

====
